---------------------------- MODULE Spec2Model ----------------------------
(***************************************************************************)
(* Telemetry and session relay of the miner dashboard.                     *)
(*                                                                         *)
(*   src/src/App.tsx                          the Session Orchestrator     *)
(*   src/my-miner-app/src/services/minerApi.ts the Backend Client and the  *)
(*                                            Realtime Channel             *)
(*   src/unnamed/part_000                     the prototype's stats poll   *)
(*                                                                         *)
(* Every handler of App.tsx is an async function: it runs from one await   *)
(* to the next without interruption, and other handlers run in between.    *)
(* A handler invocation is a task: it holds the component state its        *)
(* closure captured when it was invoked (cu, sid, st) and its position     *)
(* (pc), and each action below is one run of a task from the arrival of    *)
(* the awaited result to the next await (or to the handler's return).      *)
(* The value 0 stands for null.                                            *)
(***************************************************************************)
EXTENDS Integers, Sequences, FiniteSets

VARIABLES
    currentUser,       \* App.tsx:27  the Operator Identity (its id), 0 = null
    miningSessionId,   \* App.tsx:28  0 = null
    miningStartTime,   \* App.tsx:30  0 = null
    balance,           \* App.tsx:29  in hundredths of a BMT
    status,            \* App.tsx:24
    history,           \* App.tsx:25  the telemetry window
    token,             \* minerApi.ts:7   MinerApiClient.token, 0 = null
    storedToken,       \* localStorage item miner_auth_token, 0 = absent
    tasks,             \* the handler invocations in flight or returned
    nextSession,       \* the next session id the backend issues
    samples,           \* number of telemetry samples the miner has served
    now,               \* Date.now()
    ws,                \* minerApi.ts:93  MinerWebSocketClient.ws, 0 = null
    sockets,           \* every WebSocket constructed, in order of creation
    timers,            \* pending setTimeout(() => this.connect(), ...) callbacks
    sent,              \* frames handed to an open transport
    sends,             \* number of send() invocations so far
    sendThrew,         \* some send() invocation raised an error
    disconnected,      \* disconnect() was called and connect() not since
    intervals,         \* App.tsx:235-243  the polling intervals scheduled
    unmounted,         \* the component was torn down
    backendStatus,     \* App.tsx:295  the text of the backend-status element
    log                \* App.tsx:26   the operator-visible Log Buffer

vars == <<currentUser, miningSessionId, miningStartTime, balance, status,
          history, token, storedToken, tasks, nextSession, samples, now,
          ws, sockets, timers, sent, sends, sendThrew, disconnected,
          intervals, unmounted, backendStatus, log>>

appVars == <<currentUser, miningSessionId, miningStartTime, balance, status>>
apiVars == <<token, storedToken>>
wsVars  == <<ws, sockets, timers, sent, sends, sendThrew, disconnected>>
fxVars  == <<intervals, unmounted, backendStatus>>

---------------------------------------------------------------------------
(* Bounds of the model *)

MaxSessions == 2     \* session ids the backend issues
MaxPolls    == 1     \* samples served in the orchestrator's specification
MaxTicks    == 1     \* clock steps
TickMs      == 700   \* length of one clock step, in ms
StartClock  == 1000  \* Date.now() at construction

(* Program constants *)

HistoryKeep       == 20    \* prev.slice(-20)
LogKeep           == 100   \* prev.slice(-100)
ReconnectInterval == 5000  \* MinerWebSocketClient.reconnectInterval

(* Two handler invocations may overlap *)
Slots   == {1, 2}
Users   == {1}
Tokens  == {1, 2}
(* HTTP status of a backend answer; 0 stands for fetch() rejecting *)
Statuses == {0, 200, 404}
(* virtualBalance strings the backend serves *)
BalanceStrings == {"0.00", "12.50"}

---------------------------------------------------------------------------
(* Backend Client *)

(* A variant of ResponseOk that accepts every answer the backend gives *)
ResponseOkNoCheck(st) == st # 0

(* response.ok *)
ResponseOk(st) == st >= 200 /\ st <= 299

(* request(): throws when fetch rejects or the status is not 2xx, and
   returns the parsed body otherwise *)
Request(resp) ==
    IF ResponseOk(resp.status)
    THEN [threw |-> FALSE, data |-> resp.data]
    ELSE [threw |-> TRUE, data |-> resp.data]

(* Answers of POST /users/auth: {token, user} on success; an error body
   carries neither *)
AuthResponses ==
    [status : {200}, data : [token : Tokens, user : Users]]
    \cup [status : Statuses \ {200}, data : {[token |-> 0, user |-> 0]}]

(* Answers of GET /wallet/balance/:userId *)
BalanceResponses ==
    [status : {200}, data : BalanceStrings]
    \cup [status : Statuses \ {200}, data : {""}]

(* Answers that carry no body the relay reads *)
AckResponses == [status : Statuses, data : {0}]

(* parseFloat of a virtualBalance string, in hundredths *)
ParseFloat(s) ==
    CASE s = "0.00"  -> 0
      [] s = "12.50" -> 1250
      [] OTHER       -> -1   \* NaN

---------------------------------------------------------------------------
(* Tasks *)

IdleTask ==
    [kind |-> "none", pc |-> "idle", cu |-> 0, sid |-> 0, st |-> 0,
     calls |-> <<>>, auth |-> "none", result |-> "none",
     logs |-> <<>>, console |-> <<>>]

(* A handler invoked now: its closure holds the state of the last render *)
NewTask(kind, pc) ==
    [kind |-> kind, pc |-> pc, cu |-> currentUser, sid |-> miningSessionId,
     st |-> miningStartTime, calls |-> <<>>, auth |-> "none",
     result |-> "none", logs |-> <<>>, console |-> <<>>]

Free(t) == tasks[t].pc \in {"idle", "done"}

(* Invocations take the lowest free slot *)
Invocable(t) == Free(t) /\ \A u \in Slots : u < t => ~Free(u)

Call(tk, c) == [tk EXCEPT !.calls = Append(@, c)]

Done(tk, res) == [tk EXCEPT !.pc = "done", !.result = res]

(* addLog(message), App.tsx:32-34: the entries an invocation appends to the
   operator-visible log *)
Log(tk, message) == [tk EXCEPT !.logs = Append(@, message)]

(* console.error(...): the entries an invocation writes to the diagnostic
   channel *)
Console(tk, message) == [tk EXCEPT !.console = Append(@, message)]

Invoke(t, tk) ==
    /\ ~unmounted
    /\ Invocable(t)
    /\ tasks' = [tasks EXCEPT ![t] = tk]

(* A variant of MayStart that tests the outcome of the authentication
   alone *)
MayStartOnAuth(authSuccess, cu) == authSuccess

(* A variant of MayStart without the test of App.tsx:107 *)
StartsAnyway(authSuccess, cu) == TRUE

(* App.tsx:107  the negation of (!authSuccess || !currentUser) *)
MayStart(authSuccess, cu) == authSuccess /\ cu # 0

(* The run of a task from the return of authenticateUser (with authSuccess)
   to its next await *)
AuthReturn(tk, authSuccess) ==
    LET k == [tk EXCEPT !.auth = IF authSuccess THEN "ok" ELSE "failed"]
    IN  IF k.kind = "auth"
        THEN Done(k, IF authSuccess THEN "ok" ELSE "failed")
        ELSE IF MayStart(authSuccess, k.cu)
             THEN Call(Log([k EXCEPT !.pc = "launch"],
                           "Starting mining process..."), <<"start-miner">>)
             ELSE Done(Log(k, "Cannot start mining without authentication"),
                       "refused")

(* The catch of authenticateUser, App.tsx:94-98 *)
AuthCaught(tk) ==
    AuthReturn(Console(Log(tk, "Authentication failed"), "error"), FALSE)

---------------------------------------------------------------------------
(* The effect, App.tsx:232-253.  It owns the polling intervals and the
   Realtime Channel.  React runs its cleanup and runs it again after every
   render in which wallet, miningSessionId or currentUser changed; the
   cleanup reads the currentUser of the render that installed it. *)

AllIntervals == {"backend", "miner", "pool"}

(* close() of the platform moves a CONNECTING or OPEN transport to CLOSING
   and leaves any other as it is *)
CloseSocket(socks, w) ==
    [socks EXCEPT ![w].state =
        IF @ \in {"CONNECTING", "OPEN"} THEN "CLOSING" ELSE @]

(* The channel (this.ws and the transports) after disconnect(),
   minerApi.ts:149-154 *)
Disconnected(ch) ==
    IF ch.ws # 0
    THEN [ws |-> 0, sockets |-> CloseSocket(ch.sockets, ch.ws)]
    ELSE ch

(* The channel after connect(), minerApi.ts:102-104 *)
Connected(ch, by) ==
    [ws |-> Len(ch.sockets) + 1,
     sockets |-> Append(ch.sockets, [state |-> "CONNECTING", by |-> by])]

(* A variant of CleanupChannel that leaves the channel connected *)
CleanupKeepsChannel(ch, cu) == ch

(* The cleanup, App.tsx:249-251 *)
CleanupChannel(ch, cu) == IF cu # 0 THEN Disconnected(ch) ELSE ch

(* The effect's body, App.tsx:238-240 *)
RunChannel(ch, cu) == IF cu # 0 THEN Connected(ch, "connect") ELSE ch

(* A render that changed a dependency, from currentUser oldCu to newCu: the
   cleanup of the effect in place, then the effect again.  (The probe that
   line 234 starts is the handler UpdateBackendStatus invokes.) *)
Rerun(oldCu, newCu) ==
    LET ch == RunChannel(CleanupChannel([ws |-> ws, sockets |-> sockets],
                                        oldCu), newCu)
    IN  /\ ws' = ch.ws
        /\ sockets' = ch.sockets
        /\ disconnected' = IF newCu # 0 THEN FALSE
                           ELSE IF oldCu # 0 THEN TRUE ELSE disconnected
        /\ intervals' = AllIntervals
        /\ UNCHANGED <<timers, sent, sends, sendThrew, unmounted, backendStatus>>

(* What React does with a state update: nothing to the effect when no
   dependency changed or the component is gone *)
Commit(oldCu, newCu, changed) ==
    IF changed /\ ~unmounted
    THEN Rerun(oldCu, newCu)
    ELSE UNCHANGED <<wsVars, fxVars>>

(* The component is torn down: the last cleanup, App.tsx:245-252 *)
EffectTeardown ==
    /\ ~unmounted
    /\ unmounted' = TRUE
    /\ intervals' = {}
    /\ LET ch == CleanupChannel([ws |-> ws, sockets |-> sockets], currentUser)
       IN  ws' = ch.ws /\ sockets' = ch.sockets
    /\ disconnected' = IF currentUser # 0 THEN TRUE ELSE disconnected
    /\ UNCHANGED <<timers, sent, sends, sendThrew, backendStatus>>
    /\ UNCHANGED <<appVars, apiVars, tasks, history, nextSession, samples, now>>
    /\ UNCHANGED log

---------------------------------------------------------------------------
(* authenticateUser, App.tsx:69-99, and the head of startMiner, 101-110 *)

AuthenticateUser(t) ==
    /\ Invoke(t, Call(NewTask("auth", "probe"), <<"checkBackendConnection">>))
    /\ UNCHANGED <<appVars, apiVars, wsVars, history, nextSession, samples, now>>
    /\ UNCHANGED fxVars
    /\ UNCHANGED log

StartMiner(t) ==
    /\ Invoke(t, Call(Log(NewTask("start", "probe"), "Starting miner..."),
                      <<"checkBackendConnection">>))
    /\ UNCHANGED <<appVars, apiVars, wsVars, history, nextSession, samples, now>>
    /\ UNCHANGED fxVars
    /\ UNCHANGED log

(* What the reachability probe meets: the backend answers that it is OK,
   answers anything else, or the request fails (no backend, timeout) *)
ProbeOutcomes == {"ok", "down", "failed"}

(* A variant of CheckBackendConnection without the catch of App.tsx:63 *)
CheckBackendConnectionUncaught(o) ==
    [threw |-> o = "failed", value |-> o = "ok", caught |-> FALSE]

(* checkBackendConnection, App.tsx:36-67: a failure is caught, reported on
   the console, and turned into false *)
CheckBackendConnection(o) ==
    [threw |-> FALSE, value |-> o = "ok", caught |-> o = "failed"]

(* The probe's own console.error, App.tsx:64 *)
Probed(tk, c) ==
    IF c.caught THEN Console(tk, "Backend connection check failed") ELSE tk

(* A variant of Aborts that goes on whatever the probe says *)
NeverAborts(backendConnected) == FALSE

(* App.tsx:73  !backendConnected *)
Aborts(backendConnected) == ~backendConnected

(* checkBackendConnection settles in authenticateUser, App.tsx:72-81 *)
ProbeReturns(t, o) ==
    /\ tasks[t].pc = "probe"
    /\ tasks[t].kind \in {"auth", "start"}
    /\ LET c == CheckBackendConnection(o)
       IN  tasks' = [tasks EXCEPT ![t] =
             IF c.threw THEN AuthCaught(@)
             ELSE IF Aborts(c.value)
                  THEN AuthReturn(Log(Log(Probed(@, c),
                                          "Backend server not running!"),
                                      "Please start backend"), FALSE)
                  ELSE IF @.cu = 0
                       THEN Call(Log([Probed(@, c) EXCEPT !.pc = "authenticate"],
                                     "Authenticating user..."),
                                 <<"authenticate">>)
                       ELSE AuthReturn(Probed(@, c), TRUE)]
    /\ UNCHANGED <<appVars, apiVars, wsVars, history, nextSession, samples, now>>
    /\ UNCHANGED fxVars
    /\ UNCHANGED log

(* minerApiClient.authenticate resolves or throws, minerApi.ts:38-47,
   then App.tsx:82-85 *)
AuthenticateResponds(t, resp) ==
    /\ tasks[t].pc = "authenticate"
    /\ LET r == Request(resp)
       IN  IF r.threw
           THEN /\ tasks' = [tasks EXCEPT ![t] = AuthCaught(@)]
                /\ UNCHANGED <<currentUser, token, storedToken>>
                /\ UNCHANGED <<wsVars, fxVars>>
           ELSE /\ token' = r.data.token
                /\ storedToken' = r.data.token
                /\ currentUser' = r.data.user
                /\ tasks' = [tasks EXCEPT ![t] =
                      Call([@ EXCEPT !.pc = "balance"],
                           <<"getWalletBalance", r.data.user>>)]
                /\ Commit(currentUser, r.data.user, TRUE)
    /\ UNCHANGED <<miningSessionId, miningStartTime, balance, status,
                   history, nextSession, samples, now>>
    /\ UNCHANGED log

(* getWalletBalance resolves or throws, App.tsx:85-91 *)
BalanceResponds(t, resp) ==
    /\ tasks[t].pc = "balance"
    /\ LET r == Request(resp)
       IN  IF r.threw
           THEN /\ tasks' = [tasks EXCEPT ![t] = AuthCaught(@)]
                /\ UNCHANGED balance
           ELSE /\ balance' = ParseFloat(r.data)
                /\ tasks' = [tasks EXCEPT ![t] =
                      AuthReturn(Log(Log(@, "Authenticated as"),
                                     "Current balance"), TRUE)]
    /\ UNCHANGED <<currentUser, miningSessionId, miningStartTime, status,
                   apiVars, wsVars, history, nextSession, samples, now>>
    /\ UNCHANGED fxVars
    /\ UNCHANGED log

---------------------------------------------------------------------------
(* Connectivity Monitor: updateBackendStatus, App.tsx:223-230, invoked by
   the effect and by its interval (234-235) *)

UpdateBackendStatus(t) ==
    /\ "backend" \in intervals
    /\ Invoke(t, Call(NewTask("monitor", "monitorProbe"),
                      <<"checkBackendConnection">>))
    /\ UNCHANGED <<appVars, apiVars, wsVars, history, nextSession, samples, now>>
    /\ UNCHANGED fxVars
    /\ UNCHANGED log

(* checkBackendConnection settles in updateBackendStatus.  Nothing catches
   an error here: it would leave the monitor as an unhandled rejection.  The
   element is gone once the component is torn down (226) *)
MonitorProbeReturns(t, o) ==
    /\ tasks[t].pc = "monitorProbe"
    /\ LET c == CheckBackendConnection(o)
       IN  IF c.threw
           THEN /\ tasks' = [tasks EXCEPT ![t] = Done(@, "threw")]
                /\ UNCHANGED backendStatus
           ELSE /\ tasks' = [tasks EXCEPT ![t] = Done(Probed(@, c), "ok")]
                /\ backendStatus' =
                      IF unmounted THEN backendStatus
                      ELSE IF c.value THEN "Connected" ELSE "Disconnected"
    /\ UNCHANGED <<appVars, apiVars, wsVars, history, nextSession, samples, now>>
    /\ UNCHANGED <<intervals, unmounted>>
    /\ UNCHANGED log

---------------------------------------------------------------------------
(* startMiner, App.tsx:112-134 *)

(* The catch of startMiner, App.tsx:130-134 *)
StartCaught(tk) == Done(Log(Console(tk, "error"), "Error starting miner"), "error")

(* window.electron.invoke("start-miner") resolves or rejects *)
LauncherStartReturns(t, ok) ==
    /\ tasks[t].pc = "launch"
    /\ IF ok
       THEN /\ status' = "running"
            /\ tasks' = [tasks EXCEPT ![t] =
                  Call(Log([@ EXCEPT !.pc = "startSession"],
                           "Creating mining session..."),
                       <<"startMiningSession", @.cu>>)]
       ELSE /\ status' = "error"
            /\ tasks' = [tasks EXCEPT ![t] = StartCaught(@)]
    /\ UNCHANGED <<currentUser, miningSessionId, miningStartTime, balance,
                   apiVars, wsVars, history, nextSession, samples, now>>
    /\ UNCHANGED fxVars
    /\ UNCHANGED log

(* startMiningSession resolves with a fresh sessionId, or throws *)
StartSessionResponds(t, resp) ==
    /\ tasks[t].pc = "startSession"
    /\ LET r == Request(resp)
       IN  IF r.threw
           THEN /\ status' = "error"
                /\ tasks' = [tasks EXCEPT ![t] = StartCaught(@)]
                /\ UNCHANGED <<miningSessionId, miningStartTime, nextSession>>
                /\ UNCHANGED <<wsVars, fxVars>>
           ELSE /\ nextSession <= MaxSessions
                /\ miningSessionId' = nextSession
                /\ miningStartTime' = now
                /\ nextSession' = nextSession + 1
                /\ tasks' = [tasks EXCEPT ![t] =
                      Done(Log(Log(@, "Miner started successfully!"),
                               "Session ID"), "ok")]
                /\ Commit(currentUser, currentUser, TRUE)
                /\ UNCHANGED status
    /\ UNCHANGED <<currentUser, balance, apiVars, history, samples, now>>
    /\ UNCHANGED log

---------------------------------------------------------------------------
(* stopMiner, App.tsx:137-162 *)

(* A variant of HasSession without the test of App.tsx:143 *)
StopsSessionAlways(sid, cu) == TRUE

(* App.tsx:143 *)
HasSession(sid, cu) == sid # 0 /\ cu # 0

(* The catch of stopMiner, App.tsx:157-161 *)
StopCaught(tk) == Done(Log(Console(tk, "error"), "Error stopping miner"), "error")

StopMiner(t) ==
    /\ Invoke(t, Call(NewTask("stop", "launchStop"), <<"stop-miner">>))
    /\ UNCHANGED <<appVars, apiVars, wsVars, history, nextSession, samples, now>>
    /\ UNCHANGED fxVars
    /\ UNCHANGED log

(* window.electron.invoke("stop-miner") resolves or rejects *)
LauncherStopReturns(t, ok) ==
    /\ tasks[t].pc = "launchStop"
    /\ IF ok
       THEN /\ status' = "stopped"
            /\ tasks' = [tasks EXCEPT ![t] =
                  IF HasSession(@.sid, @.cu)
                  THEN Call([@ EXCEPT !.pc = "stopSession"],
                            <<"stopMiningSession", @.sid>>)
                  ELSE Done(Log(@, "Miner stopped"), "ok")]
       ELSE /\ status' = "error"
            /\ tasks' = [tasks EXCEPT ![t] = StopCaught(@)]
    /\ UNCHANGED <<currentUser, miningSessionId, miningStartTime, balance,
                   apiVars, wsVars, history, nextSession, samples, now>>
    /\ UNCHANGED fxVars
    /\ UNCHANGED log

(* stopMiningSession resolves or throws *)
StopSessionResponds(t, resp) ==
    /\ tasks[t].pc = "stopSession"
    /\ IF Request(resp).threw
       THEN /\ status' = "error"
            /\ tasks' = [tasks EXCEPT ![t] = StopCaught(@)]
       ELSE /\ tasks' = [tasks EXCEPT ![t] =
                  Call([@ EXCEPT !.pc = "stopBalance"],
                       <<"getWalletBalance", @.cu>>)]
            /\ UNCHANGED status
    /\ UNCHANGED <<currentUser, miningSessionId, miningStartTime, balance,
                   apiVars, wsVars, history, nextSession, samples, now>>
    /\ UNCHANGED fxVars
    /\ UNCHANGED log

(* A variant of SessionCleared that leaves the field as it is *)
SessionKept(sid) == sid

(* App.tsx:152-153  setMiningSessionId(null); setMiningStartTime(null) *)
SessionCleared(sid) == 0

(* getWalletBalance resolves or throws, App.tsx:147-153 *)
StopBalanceResponds(t, resp) ==
    /\ tasks[t].pc = "stopBalance"
    /\ LET r == Request(resp)
       IN  IF r.threw
           THEN /\ status' = "error"
                /\ tasks' = [tasks EXCEPT ![t] = StopCaught(@)]
                /\ UNCHANGED <<balance, miningSessionId, miningStartTime>>
                /\ UNCHANGED <<wsVars, fxVars>>
           ELSE /\ balance' = ParseFloat(r.data)
                /\ miningSessionId' = SessionCleared(miningSessionId)
                /\ miningStartTime' = SessionCleared(miningStartTime)
                /\ tasks' = [tasks EXCEPT ![t] =
                      Done(Log(Log(@, "Final balance"), "Miner stopped"),
                           "ok")]
                /\ Commit(currentUser, currentUser,
                          miningSessionId' # miningSessionId)
                /\ UNCHANGED status
    /\ UNCHANGED <<currentUser, apiVars, history, nextSession, samples, now>>
    /\ UNCHANGED log

---------------------------------------------------------------------------
(* Realtime Channel, minerApi.ts:92-155 *)

SocketStates == {"CONNECTING", "OPEN", "CLOSING", "CLOSED"}

MaxSockets == 3    \* transports the model lets the channel construct
MaxSends   == 2    \* send() invocations in the channel's specification

Live(s) == sockets[s].state \in {"CONNECTING", "OPEN"}

(* readyState of this.ws, "NONE" when this.ws is null *)
ReadyState(w, socks) == IF w = 0 THEN "NONE" ELSE socks[w].state

(* A variant of IsOpen that tests this.ws alone, not its readyState *)
SendsOnAnySocket(w, socks) == w # 0

(* minerApi.ts:136  this.ws?.readyState === WebSocket.OPEN *)
IsOpen(w, socks) == ReadyState(w, socks) = "OPEN"

(* WebSocket.send of the platform: throws InvalidStateError while
   CONNECTING, transmits while OPEN, discards once CLOSING or CLOSED *)
TransportSend(state) ==
    CASE state = "CONNECTING" -> "threw"
      [] state = "OPEN"       -> "sent"
      [] OTHER                -> "discarded"

(* send(type, payload), minerApi.ts:135-139: what it did *)
SendOutcome(w, socks) ==
    IF IsOpen(w, socks) THEN TransportSend(socks[w].state) ELSE "dropped"

(* The channel's state after the next send(type, payload): the frame is the
   invocation's number with what it carries *)
SendEffect(type, payload) ==
    LET o == SendOutcome(ws, sockets)
    IN  /\ sends' = sends + 1
        /\ sent' = IF o = "sent"
                   THEN sent \cup {[socket |-> ws, n |-> sends + 1,
                                    type |-> type, payload |-> payload]}
                   ELSE sent
        /\ sendThrew' = (sendThrew \/ o = "threw")
        /\ UNCHANGED <<ws, sockets, timers, disconnected>>

(* connect(), minerApi.ts:102-133: constructs a transport and keeps it *)
ConnectEffect(by) ==
    LET ch == Connected([ws |-> ws, sockets |-> sockets], by)
    IN  sockets' = ch.sockets /\ ws' = ch.ws

(* connect() called by the channel's owner *)
WsConnect ==
    /\ Len(sockets) < MaxSockets
    /\ ConnectEffect("connect")
    /\ disconnected' = FALSE
    /\ UNCHANGED <<timers, sent, sends, sendThrew>>
    /\ UNCHANGED <<appVars, apiVars, tasks, history, nextSession, samples, now>>
    /\ UNCHANGED fxVars
    /\ UNCHANGED log

(* disconnect(), minerApi.ts:149-154, called by the channel's owner *)
WsDisconnect ==
    /\ LET ch == Disconnected([ws |-> ws, sockets |-> sockets])
       IN  sockets' = ch.sockets /\ ws' = ch.ws
    /\ disconnected' = TRUE
    /\ UNCHANGED <<timers, sent, sends, sendThrew>>
    /\ UNCHANGED <<appVars, apiVars, tasks, history, nextSession, samples, now>>
    /\ UNCHANGED fxVars
    /\ UNCHANGED log

(* sendMiningStats(stats), minerApi.ts:141-143, called by the owner *)
WsSendMiningStats(payload) ==
    /\ sends < MaxSends
    /\ SendEffect("mining_stats", payload)
    /\ UNCHANGED <<appVars, apiVars, tasks, history, nextSession, samples, now>>
    /\ UNCHANGED fxVars
    /\ UNCHANGED log

(* The transport's handshake completes: onopen, minerApi.ts:106-108 *)
TransportOpens(s) ==
    /\ s \in DOMAIN sockets
    /\ sockets[s].state = "CONNECTING"
    /\ sockets' = [sockets EXCEPT ![s].state = "OPEN"]
    /\ UNCHANGED <<ws, timers, sent, sends, sendThrew, disconnected>>
    /\ UNCHANGED <<appVars, apiVars, tasks, history, nextSession, samples, now>>
    /\ UNCHANGED fxVars
    /\ UNCHANGED log

(* onclose, minerApi.ts:122-125: setTimeout(() => this.connect(), 5000) *)
OnClose == timers' = Append(timers, now + ReconnectInterval)

(* The transport fails or the peer closes it: the close event fires *)
TransportDrops(s) ==
    /\ s \in DOMAIN sockets
    /\ Live(s)
    /\ sockets' = [sockets EXCEPT ![s].state = "CLOSED"]
    /\ OnClose
    /\ UNCHANGED <<ws, sent, sends, sendThrew, disconnected>>
    /\ UNCHANGED <<appVars, apiVars, tasks, history, nextSession, samples, now>>
    /\ UNCHANGED fxVars
    /\ UNCHANGED log

(* The closing handshake that close() began completes: the close event
   fires *)
CloseCompletes(s) ==
    /\ s \in DOMAIN sockets
    /\ sockets[s].state = "CLOSING"
    /\ sockets' = [sockets EXCEPT ![s].state = "CLOSED"]
    /\ OnClose
    /\ UNCHANGED <<ws, sent, sends, sendThrew, disconnected>>
    /\ UNCHANGED <<appVars, apiVars, tasks, history, nextSession, samples, now>>
    /\ UNCHANGED fxVars
    /\ UNCHANGED log

(* The earliest reconnection timer fires, at its due time or later, and
   runs this.connect() *)
ReconnectTimerFires ==
    /\ timers # <<>>
    /\ Len(sockets) < MaxSockets
    /\ now' = IF now < Head(timers) THEN Head(timers) ELSE now
    /\ timers' = Tail(timers)
    /\ ConnectEffect("timer")
    /\ UNCHANGED <<sent, sends, sendThrew, disconnected>>
    /\ UNCHANGED <<appVars, apiVars, tasks, history, nextSession, samples>>
    /\ UNCHANGED fxVars
    /\ UNCHANGED log

---------------------------------------------------------------------------
(* fetchStats, App.tsx:164-208 and part_000:45-61 *)

LastN(s, n) == IF Len(s) <= n THEN s ELSE SubSeq(s, Len(s) - n + 1, Len(s))

(* App.tsx:179  [...prev.slice(-20), point] *)
AppendSample(prev, point) == Append(LastN(prev, HistoryKeep), point)

(* A variant of Duration that rounds to the nearest second *)
DurationRounded(t, t0) == (t - t0 + 500) \div 1000

(* App.tsx:185  Math.floor((Date.now() - miningStartTime) / 1000) *)
Duration(t, t0) == (t - t0) \div 1000

(* App.tsx:183 *)
SessionLive(sid, cu, st) == sid # 0 /\ cu # 0 /\ st # 0

FetchStats(t) ==
    /\ "miner" \in intervals
    /\ Invoke(t, Call(NewTask("stats", "summary"), <<"summary">>))
    /\ UNCHANGED <<appVars, apiVars, wsVars, history, nextSession, samples, now>>
    /\ UNCHANGED fxVars
    /\ UNCHANGED log

(* fetch of /summary rejects, or its body reports no GPU: App.tsx:169, 202.
   A rejection is logged when Math.random() < 0.1 (lucky) *)
SummaryAbsent(t, why, lucky) ==
    /\ tasks[t].pc = "summary"
    /\ tasks' = [tasks EXCEPT ![t] =
          IF why = "unreachable" /\ lucky
          THEN Done(Log(@, "Waiting for miner stats..."), why)
          ELSE Done(@, why)]
    /\ UNCHANGED <<appVars, apiVars, wsVars, history, nextSession, samples, now>>
    /\ UNCHANGED fxVars
    /\ UNCHANGED log

(* /summary reports a GPU: the sample is appended, App.tsx:173-186 *)
SummarySample(t) ==
    /\ tasks[t].pc = "summary"
    /\ samples' = samples + 1
    /\ history' = AppendSample(history, samples + 1)
    /\ tasks' = [tasks EXCEPT ![t] =
          IF SessionLive(@.sid, @.cu, @.st)
          THEN Call(Log([@ EXCEPT !.pc = "update"], "Miner:"),
                    <<"updateMiningSession", @.sid, Duration(now, @.st)>>)
          ELSE Done(Log(@, "Miner:"), "ok")]
    /\ UNCHANGED <<appVars, apiVars, wsVars, nextSession, now>>
    /\ UNCHANGED fxVars
    /\ UNCHANGED log

(* A variant of UpdateCaught that also tells the operator *)
UpdateCaughtLogged(tk) ==
    Log(Console(tk, "Failed to update mining session"),
        "Failed to update mining session")

(* The inner catch of fetchStats, App.tsx:196-199 *)
UpdateCaught(tk) == Console(tk, "Failed to update mining session")

(* updateMiningSession resolves or throws, App.tsx:186-199 *)
UpdateResponds(t, resp) ==
    /\ tasks[t].pc = "update"
    /\ IF Request(resp).threw
       THEN /\ tasks' = [tasks EXCEPT ![t] = Done(UpdateCaught(@), "suppressed")]
            /\ UNCHANGED wsVars
       ELSE /\ tasks' = [tasks EXCEPT ![t] =
                  Done(Call(@, <<"sendMiningStats", @.sid>>), "ok")]
            /\ SendEffect("mining_stats",
                          [userId |-> tasks[t].cu, sessionId |-> tasks[t].sid])
    /\ UNCHANGED <<appVars, apiVars, history, nextSession, samples, now>>
    /\ UNCHANGED fxVars
    /\ UNCHANGED log

---------------------------------------------------------------------------
(* The clock *)

Tick ==
    /\ now < StartClock + MaxTicks * TickMs
    /\ now' = now + TickMs
    /\ UNCHANGED <<appVars, apiVars, wsVars, tasks, history, nextSession, samples>>
    /\ UNCHANGED fxVars
    /\ UNCHANGED log

---------------------------------------------------------------------------
(* The Log Buffer, App.tsx:26 and 32-34.  The handlers' steps above record
   the messages each invocation passes to addLog; setLog folds the messages
   of all invocations, in the order they were passed, into the buffer the
   operator sees *)

LogAppends == 102    \* addLog calls in the buffer's specification

(* toLocaleTimeString(): the time of day to the second, neither the date
   nor the milliseconds *)
LocaleTimeString(t) == (t \div 1000) % 86400

(* The updater of setLog, App.tsx:33  [...prev.slice(-100), entry] *)
AddLogEntry(prev, entry) == Append(LastN(prev, LogKeep), entry)

(* addLog(message) *)
AddLog(message) ==
    /\ log' = AddLogEntry(log, [time |-> LocaleTimeString(now),
                                message |-> message])
    /\ UNCHANGED <<appVars, apiVars, wsVars, fxVars, tasks, history,
                   nextSession, samples, now>>

(* The number of the last message appended: the buffer's specification
   numbers the messages from 1 *)
Appended == IF log = <<>> THEN 0 ELSE log[Len(log)].message

MaxElapsed == 12000   \* how far the poll's specification lets the clock run

(* The lengths of time that pass between two steps of the poll's
   specification, in ms *)
Elapses == {4500, 7500}

(* Time passes *)
ClockAdvances(d) ==
    /\ now + d <= StartClock + MaxElapsed
    /\ now' = now + d
    /\ UNCHANGED <<appVars, apiVars, wsVars, tasks, history, nextSession, samples>>
    /\ UNCHANGED fxVars
    /\ UNCHANGED log

---------------------------------------------------------------------------
(* Specifications *)

(* The state after construction: nothing rendered but the initial state,
   the token read from local storage (minerApi.ts:11), no transport *)
Init ==
    /\ currentUser = 0
    /\ miningSessionId = 0
    /\ miningStartTime = 0
    /\ balance = 0
    /\ status = "stopped"
    /\ history = <<>>
    /\ storedToken \in {0} \cup Tokens
    /\ token = storedToken
    /\ tasks = [t \in Slots |-> IdleTask]
    /\ nextSession = 1
    /\ samples = 0
    /\ now = StartClock
    /\ ws = 0
    /\ sockets = <<>>
    /\ timers = <<>>
    /\ sent = {}
    /\ sends = 0
    /\ sendThrew = FALSE
    /\ disconnected = FALSE
    /\ intervals = {"backend", "miner", "pool"}
    /\ unmounted = FALSE
    /\ backendStatus = "Checking..."
    /\ log = <<>>

(* The Session Orchestrator with the Backend Client: the operator's
   actions, the stats poll and the answers of the launcher and the backend.
   The clock stands still here: the specifications below let it run *)
Next ==
    \/ \E t \in Slots : AuthenticateUser(t)
    \/ \E t \in Slots : StartMiner(t)
    \/ \E t \in Slots : StopMiner(t)
    \/ \E t \in Slots : samples < MaxPolls /\ FetchStats(t)
    \/ \E t \in Slots, o \in ProbeOutcomes : ProbeReturns(t, o)
    \/ \E t \in Slots, r \in AuthResponses : AuthenticateResponds(t, r)
    \/ \E t \in Slots, r \in BalanceResponses : BalanceResponds(t, r)
    \/ \E t \in Slots, ok \in BOOLEAN : LauncherStartReturns(t, ok)
    \/ \E t \in Slots, r \in AckResponses : StartSessionResponds(t, r)
    \/ \E t \in Slots, ok \in BOOLEAN : LauncherStopReturns(t, ok)
    \/ \E t \in Slots, r \in AckResponses : StopSessionResponds(t, r)
    \/ \E t \in Slots, r \in BalanceResponses : StopBalanceResponds(t, r)
    \/ \E t \in Slots, why \in {"unreachable", "nogpu"}, lucky \in BOOLEAN :
          SummaryAbsent(t, why, lucky)
    \/ \E t \in Slots : SummarySample(t)
    \/ \E t \in Slots, r \in AckResponses : UpdateResponds(t, r)

Spec == Init /\ [][Next]_vars

(* The Realtime Channel alone, driven by its owner's calls and by the
   transport's events *)
NextChannel ==
    \/ WsConnect
    \/ WsDisconnect
    \/ \E u \in Users : WsSendMiningStats([userId |-> u, sessionId |-> 1])
    \/ \E s \in 1..MaxSockets : TransportOpens(s)
    \/ \E s \in 1..MaxSockets : TransportDrops(s)
    \/ \E s \in 1..MaxSockets : CloseCompletes(s)
    \/ ReconnectTimerFires
    \/ Tick

SpecChannel == Init /\ [][NextChannel]_vars

(* The stats poll alone, with no Session: the telemetry window fills *)
WindowPolls == 22    \* samples served in the window's specification

NextWindow ==
    \/ \E t \in Slots : samples < WindowPolls /\ FetchStats(t)
    \/ \E t \in Slots, why \in {"unreachable", "nogpu"}, lucky \in BOOLEAN :
          SummaryAbsent(t, why, lucky)
    \/ \E t \in Slots : SummarySample(t)
    \/ Tick

SpecWindow == Init /\ [][NextWindow]_vars

(* The effect with the Realtime Channel: authentication brings the identity
   that makes the effect connect, the transport lives its life, and the
   component is torn down at some point *)
NextEffect ==
    \/ \E t \in Slots : AuthenticateUser(t)
    \/ \E t \in Slots, o \in ProbeOutcomes : ProbeReturns(t, o)
    \/ \E t \in Slots, r \in AuthResponses : AuthenticateResponds(t, r)
    \/ \E t \in Slots, r \in BalanceResponses : BalanceResponds(t, r)
    \/ EffectTeardown
    \/ \E s \in 1..MaxSockets : TransportOpens(s)
    \/ \E s \in 1..MaxSockets : TransportDrops(s)
    \/ \E s \in 1..MaxSockets : CloseCompletes(s)
    \/ ReconnectTimerFires

SpecEffect == Init /\ [][NextEffect]_vars

(* The stats poll of a Session over time: the operator authenticates and
   starts mining, the clock runs, and polls report to the backend *)
NextPoll ==
    \/ \E t \in Slots : AuthenticateUser(t)
    \/ \E t \in Slots : StartMiner(t)
    \/ \E t \in Slots : samples < MaxPolls /\ FetchStats(t)
    \/ \E t \in Slots : ProbeReturns(t, "ok")
    \/ \E t \in Slots, r \in {x \in AuthResponses : ResponseOk(x.status)} :
          AuthenticateResponds(t, r)
    \/ \E t \in Slots, r \in {x \in BalanceResponses : ResponseOk(x.status)} :
          BalanceResponds(t, r)
    \/ \E t \in Slots : LauncherStartReturns(t, TRUE)
    \/ \E t \in Slots, r \in {x \in AckResponses : ResponseOk(x.status)} :
          StartSessionResponds(t, r)
    \/ \E t \in Slots : SummarySample(t)
    \/ \E t \in Slots, r \in AckResponses : UpdateResponds(t, r)
    \/ \E d \in Elapses : ClockAdvances(d)

SpecPoll == Init /\ [][NextPoll]_vars

(* The Connectivity Monitor beside the operator's authenticate and
   start-mining actions, until the component is torn down *)
NextMonitor ==
    \/ \E t \in Slots : UpdateBackendStatus(t)
    \/ \E t \in Slots, o \in ProbeOutcomes : MonitorProbeReturns(t, o)
    \/ \E t \in Slots : AuthenticateUser(t)
    \/ \E t \in Slots : StartMiner(t)
    \/ \E t \in Slots, o \in ProbeOutcomes : ProbeReturns(t, o)
    \/ \E t \in Slots, r \in {x \in AuthResponses : ResponseOk(x.status)} :
          AuthenticateResponds(t, r)
    \/ \E t \in Slots, r \in {x \in BalanceResponses : ResponseOk(x.status)} :
          BalanceResponds(t, r)
    \/ \E t \in Slots : LauncherStartReturns(t, TRUE)
    \/ \E t \in Slots, r \in {x \in AckResponses : ResponseOk(x.status)} :
          StartSessionResponds(t, r)
    \/ EffectTeardown

SpecMonitor == Init /\ [][NextMonitor]_vars

(* The Log Buffer alone: messages are appended one after another while
   the clock runs *)
NextLog ==
    \/ Appended < LogAppends /\ AddLog(Appended + 1)
    \/ Tick

SpecLog == Init /\ [][NextLog]_vars

---------------------------------------------------------------------------
(* Properties *)

Has(tk, name) == \E i \in 1..Len(tk.calls) : tk.calls[i][1] = name

(* C1: in every reachable state of the orchestrator, a Session
   (miningSessionId) is present only if an Operator Identity (currentUser)
   is present. *)
C1_SessionNeedsIdentity == miningSessionId # 0 => currentUser # 0

(* A Session is active *)
C1_Witness == miningSessionId # 0 /\ miningStartTime # 0 /\ currentUser # 0

(* C2: a start-mining action invoked with no Operator Identity attempts
   authentication before anything else, and when that authentication
   fails it returns without invoking the launcher or startMiningSession:
   it never reaches the step that records a Session. *)
C2_NoStartWithoutAuth ==
    \A t \in Slots :
        (tasks[t].kind = "start" /\ tasks[t].cu = 0) =>
            /\ tasks[t].calls[1] = <<"checkBackendConnection">>
            /\ Len(tasks[t].calls) >= 2 => tasks[t].calls[2] = <<"authenticate">>
            /\ tasks[t].auth = "failed" =>
                  /\ tasks[t].pc = "done"
                  /\ tasks[t].result = "refused"
                  /\ ~Has(tasks[t], "start-miner")
                  /\ ~Has(tasks[t], "startMiningSession")

(* A start-mining action with no identity whose authenticate call was made
   and failed, with no Session recorded *)
C2_Witness ==
    \E t \in Slots :
        /\ tasks[t].kind = "start" /\ tasks[t].cu = 0
        /\ tasks[t].auth = "failed" /\ tasks[t].pc = "done"
        /\ Has(tasks[t], "authenticate")
        /\ miningSessionId = 0

(* C3: when the stopMiningSession call of a stop-mining action fails, the
   action still clears the Session: sessionId and startedAt are both absent
   when it returns. *)
C3_StopFailureClearsSession ==
    [][\A t \in Slots :
          (tasks[t].pc = "stopSession" /\ tasks'[t].pc = "done") =>
              (miningSessionId' = 0 /\ miningStartTime' = 0)]_vars

(* C4: a stop-mining action invoked with a Session active, all of whose
   calls succeed, has called the launcher's stop, then
   stopMiningSession(sessionId), then getWalletBalance; the step in which it
   returns sets Balance to the answer of getWalletBalance and leaves no
   Session. *)
C4_StopRefreshesAndClears ==
    [][\A t \in Slots : \A r \in BalanceResponses :
          (StopBalanceResponds(t, r) /\ r.status = 200) =>
              /\ tasks[t].sid # 0
              /\ tasks[t].calls = << <<"stop-miner">>,
                                     <<"stopMiningSession", tasks[t].sid>>,
                                     <<"getWalletBalance", tasks[t].cu>> >>
              /\ balance' = ParseFloat(r.data)
              /\ miningSessionId' = 0
              /\ miningStartTime' = 0
              /\ tasks'[t].pc = "done"]_vars

(* A stop-mining action has returned after stopping its Session and
   refreshing Balance to a non-zero amount, and no Session is left *)
C4_Witness ==
    \E t \in Slots :
        /\ tasks[t].kind = "stop" /\ tasks[t].pc = "done"
        /\ tasks[t].result = "ok" /\ tasks[t].sid # 0
        /\ Has(tasks[t], "getWalletBalance")
        /\ balance = 1250
        /\ miningSessionId = 0 /\ miningStartTime = 0

(* C5: a stop-mining action invoked with no Session active makes no backend
   call (its only call is the launcher's stop) and none of its steps changes
   Operator Identity, Session or Balance. *)
C5_StopWithoutSessionIsNoOp ==
    [][\A t \in Slots :
          (tasks'[t] # tasks[t] /\ tasks'[t].kind = "stop" /\ tasks'[t].sid = 0) =>
              /\ tasks'[t].calls = << <<"stop-miner">> >>
              /\ tasks'[t].pc \in {"launchStop", "done"}
              /\ UNCHANGED <<currentUser, miningSessionId, miningStartTime,
                             balance>>]_vars

(* Stop-mining was invoked with an identity and no Session, and returned *)
C5_Witness ==
    \E t \in Slots :
        /\ tasks[t].kind = "stop" /\ tasks[t].sid = 0 /\ tasks[t].cu # 0
        /\ tasks[t].pc = "done" /\ tasks[t].result = "ok"

(* C6: the telemetry window never holds more than 20 samples, holds them in
   arrival order, and holds the most recent ones (the oldest are evicted
   first). *)
C6_WindowBounded ==
    /\ Len(history) <= 20
    /\ \A i \in 1..Len(history) : history[i] = samples - Len(history) + i

(* C7: after disconnect(), and until connect() is called again, the channel
   opens no transport, and the close event of the transport that
   disconnect() closed schedules no reconnection. *)
C7_DisconnectSuppressesReconnect ==
    [][/\ (disconnected /\ disconnected') => Len(sockets') = Len(sockets)
       /\ \A s \in DOMAIN sockets :
             (sockets[s].state = "CLOSING" /\ sockets'[s].state = "CLOSED")
                 => timers' = timers]_vars

(* C8: connect() while a transport is connecting or open opens no second
   transport, and each unexpected closure schedules exactly one
   reconnection, 5000 ms later. *)
C8_ConnectIdempotent ==
    [][/\ (ws # 0 /\ Live(ws)) => Len(sockets') = Len(sockets)
       /\ \A s \in DOMAIN sockets :
             (Live(s) /\ sockets'[s].state = "CLOSED")
                 => timers' = Append(timers, now + 5000)]_vars

(* C9: send() on a channel that is not open transmits nothing and raises no
   error, and a frame is transmitted only in the step of the send()
   invocation that carries it: nothing is kept to be delivered when the
   channel opens. *)
C9_SendDropsWhenNotOpen ==
    [][/\ (ws = 0 \/ sockets[ws].state # "OPEN") => sent' = sent
       /\ \A f \in sent' \ sent : sends' = sends + 1 /\ f.n = sends'
       /\ sendThrew' = FALSE]_vars

(* send() was invoked on a channel that was not open, the channel is open
   now, and nothing was transmitted *)
C9_Witness ==
    /\ sends > 0 /\ sent = {}
    /\ ws # 0 /\ sockets[ws].state = "OPEN"

(* C10: when authenticate gets a 2xx answer, the token in memory and the
   persisted token both become the token of that answer, whatever they were;
   when it gets any other answer (or none), the call fails and both are
   left as they were. *)
C10_TokenFollowsAuthenticate ==
    [][\A t \in Slots : \A r \in AuthResponses :
          AuthenticateResponds(t, r) =>
              IF r.status \in 200..299
              THEN /\ token' = r.data.token
                   /\ storedToken' = r.data.token
                   /\ tasks'[t].pc = "balance"
              ELSE /\ token' = token
                   /\ storedToken' = storedToken
                   /\ tasks'[t].auth = "failed"]_vars

(* An authenticate call has just succeeded after another one had: the
   stored token is the backend's *)
C10_Witness ==
    \E t, u \in Slots :
        /\ t # u
        /\ tasks[t].pc = "balance"
        /\ Has(tasks[u], "getWalletBalance") /\ tasks[u].kind = "auth"
        /\ token \in Tokens /\ storedToken = token

(* C11: for a poll that yields a sample while a Session is active, the
   mining_stats push is issued together with the updateMiningSession call,
   not after its outcome, and it is issued whether that call succeeds or
   fails. *)
C11_PushIndependentOfUpdate ==
    [][\A t \in Slots :
          /\ (tasks[t].pc = "summary" /\ tasks'[t].pc = "update")
                => Has(tasks'[t], "sendMiningStats")
          /\ (tasks[t].pc = "update" /\ tasks'[t].pc = "done")
                => Has(tasks'[t], "sendMiningStats")]_vars

(* C12: an updateMiningSession call or a mining_stats push is issued only
   while a Session and an Operator Identity exist: none is issued for a
   Session that stop-mining has cleared in the meantime. *)
C12_TelemetryOnlyWhileSession ==
    [][\A t \in Slots :
          (\/ (tasks[t].pc = "summary" /\ tasks'[t].pc = "update")
           \/ (tasks[t].pc = "update" /\ Has(tasks'[t], "sendMiningStats")))
              => (miningSessionId # 0 /\ currentUser # 0)]_vars

(* C13: once set, the Operator Identity is never replaced or cleared, and
   no authenticate call sets it again. *)
C13_IdentitySetOnce ==
    [][/\ currentUser # 0 => currentUser' = currentUser
       /\ \A t \in Slots :
             (tasks[t].pc = "authenticate" /\ tasks'[t].pc = "balance")
                 => currentUser = 0]_vars

(* C14: once the component is torn down, no polling interval remains
   scheduled, no transport of the Realtime Channel is connecting or open,
   and no reconnection timer is pending (so none will open a transport). *)
C14_TeardownLeavesNothing ==
    unmounted =>
        /\ intervals = {}
        /\ \A s \in DOMAIN sockets : ~Live(s)
        /\ timers = <<>>

(* C15: whenever a poll handled at time t calls updateMiningSession for
   the Session started at t0, the duration d it passes is the whole number
   of seconds in t - t0: 1000 d <= t - t0 < 1000 (d + 1); and t0 is the
   start time of the Session the call names. *)
C15_DurationIsWholeSeconds ==
    [][\A t \in Slots :
          (tasks[t].pc = "summary" /\ tasks'[t].pc = "update") =>
              LET c == tasks'[t].calls[Len(tasks'[t].calls)]
              IN  /\ c[1] = "updateMiningSession"
                  /\ c[2] = tasks[t].sid
                  /\ miningSessionId = c[2] => miningStartTime = tasks[t].st
                  /\ 1000 * c[3] <= now - tasks[t].st
                  /\ now - tasks[t].st < 1000 * (c[3] + 1)]_vars

(* A poll handled 12000 ms after its Session started has called
   updateMiningSession with duration 12 *)
C15_Witness ==
    \E t \in Slots :
        /\ tasks[t].pc = "update"
        /\ now = miningStartTime + 12000
        /\ tasks[t].calls[Len(tasks[t].calls)]
              = <<"updateMiningSession", miningSessionId, 12>>

(* C16: no step of a Connectivity Monitor tick, whatever its reachability
   probe meets and however many ticks fail, raises an error out of the
   monitor or changes Operator Identity, Session (sessionId, startedAt) or
   Balance; a failing probe shows as Disconnected. *)
C16_MonitorFailuresAreHarmless ==
    [][\A t \in Slots :
          (tasks'[t] # tasks[t] /\ tasks'[t].kind = "monitor") =>
              /\ tasks'[t].result # "threw"
              /\ UNCHANGED <<currentUser, miningSessionId, miningStartTime,
                             balance>>
              /\ \A o \in ProbeOutcomes \ {"ok"} :
                    (MonitorProbeReturns(t, o) /\ ~unmounted) =>
                        (tasks'[t].pc = "done" /\ backendStatus' = "Disconnected")]_vars

(* Two monitor ticks whose probes failed have returned while a Session is
   active with a non-zero Balance *)
C16_Witness ==
    /\ \A t \in Slots :
          /\ tasks[t].kind = "monitor" /\ tasks[t].result = "ok"
          /\ tasks[t].console # <<>>
    /\ backendStatus = "Disconnected"
    /\ currentUser # 0 /\ miningSessionId # 0 /\ miningStartTime # 0
    /\ balance = 1250

(* C17: a start-mining action whose launcher or whose startMiningSession
   call fails records no Session (it leaves sessionId and startedAt as they
   were and returns in error); and in every reachable state sessionId is
   present exactly when startedAt is. *)
C17_NoPartialSession ==
    /\ (miningSessionId # 0 <=> miningStartTime # 0)
    /\ [][/\ (miningSessionId' # 0 <=> miningStartTime' # 0)
          /\ \A t \in Slots :
                (\/ LauncherStartReturns(t, FALSE)
                 \/ \E r \in AckResponses :
                       r.status \notin 200..299 /\ StartSessionResponds(t, r))
                    => /\ UNCHANGED <<miningSessionId, miningStartTime>>
                       /\ tasks'[t].pc = "done"
                       /\ tasks'[t].result = "error"
                       /\ tasks'[t].logs[Len(tasks'[t].logs)]
                             = "Error starting miner"]_vars

(* A start-mining action has returned in error after its
   startMiningSession call failed, and no Session exists *)
C17_Witness ==
    \E t \in Slots :
        /\ tasks[t].kind = "start" /\ tasks[t].result = "error"
        /\ Has(tasks[t], "startMiningSession")
        /\ currentUser # 0
        /\ miningSessionId = 0 /\ miningStartTime = 0

(* C18: when the reachability probe of an authenticate action reports the
   backend unreachable, the action returns in failure in that step, having
   appended a message to the operator-visible log and having made no
   authenticate and no getWalletBalance call, and Operator Identity, token
   and Balance are left as they were. *)
C18_UnreachableAborts ==
    [][\A t \in Slots : \A o \in ProbeOutcomes \ {"ok"} :
          ProbeReturns(t, o) =>
              /\ tasks'[t].pc = "done"
              /\ tasks'[t].auth = "failed"
              /\ Len(tasks'[t].logs) > Len(tasks[t].logs)
              /\ \E i \in 1..Len(tasks'[t].logs) :
                    tasks'[t].logs[i] = "Backend server not running!"
              /\ ~Has(tasks'[t], "authenticate")
              /\ ~Has(tasks'[t], "getWalletBalance")
              /\ UNCHANGED <<currentUser, token, storedToken, balance>>]_vars

(* An authenticate action invoked with no identity has returned in failure
   on an unreachable backend, with its two messages logged and the probe as
   its only call *)
C18_Witness ==
    \E t \in Slots :
        /\ tasks[t].kind = "auth" /\ tasks[t].cu = 0
        /\ tasks[t].pc = "done" /\ tasks[t].result = "failed"
        /\ tasks[t].calls = << <<"checkBackendConnection">> >>
        /\ tasks[t].logs = <<"Backend server not running!", "Please start backend">>
        /\ currentUser = 0 /\ token = 0

(* C19: an authenticate action that ends in failure, whichever step failed
   (the balance fetch after the authenticate call included), leaves no
   Operator Identity if none existed when it was invoked. *)
C19_FailedAuthRestoresIdentity ==
    [][\A t \in Slots :
          (/\ tasks[t].kind = "auth" /\ tasks[t].cu = 0
           /\ tasks[t].pc # "done" /\ tasks'[t].pc = "done"
           /\ tasks'[t].result = "failed")
              => currentUser' = 0]_vars

(* C20: when updateMiningSession fails in a poll, the poll returns normally
   in that step, having appended nothing to the operator-visible log and one
   entry to the diagnostic channel, and Session, Operator Identity and status
   are left as they were. *)
C20_UpdateFailureIsQuiet ==
    [][\A t \in Slots : \A r \in AckResponses :
          (UpdateResponds(t, r) /\ r.status \notin 200..299) =>
              /\ tasks'[t].pc = "done"
              /\ tasks'[t].result # "threw"
              /\ tasks'[t].logs = tasks[t].logs
              /\ Len(tasks'[t].console) = Len(tasks[t].console) + 1
              /\ UNCHANGED <<miningSessionId, miningStartTime, currentUser,
                             status>>]_vars

(* A poll whose updateMiningSession call failed has returned while its
   Session is active: the sample is all it logged, and the failure is on
   the diagnostic channel *)
C20_Witness ==
    \E t \in Slots :
        /\ tasks[t].kind = "stats" /\ tasks[t].pc = "done"
        /\ tasks[t].result = "suppressed"
        /\ tasks[t].logs = <<"Miner:">>
        /\ tasks[t].console = <<"Failed to update mining session">>
        /\ miningSessionId = tasks[t].sid /\ miningSessionId # 0
        /\ status = "running"

(* C21: the Log Buffer never holds more than 100 entries, holds them in
   the order they were appended, and holds the most recent ones (the oldest
   are evicted first). *)
C21_LogBounded ==
    /\ Len(log) <= 100
    /\ \A i \in 1..Len(log) : log[i].message = Appended - Len(log) + i

(* C22: a start-mining action invoked with no Operator Identity never calls
   the launcher or startMiningSession, even when its own authentication
   succeeds; the step that records a Session belongs to a start-mining
   action that was invoked when an identity already existed. *)
C22_FirstStartOnlyAuthenticates ==
    [][\A t \in Slots :
          /\ (tasks'[t].kind = "start" /\ tasks'[t].cu = 0) =>
                /\ tasks'[t].pc \notin {"launch", "startSession"}
                /\ ~Has(tasks'[t], "start-miner")
                /\ ~Has(tasks'[t], "startMiningSession")
                /\ tasks'[t].auth = "ok" =>
                      (tasks'[t].pc = "done" /\ tasks'[t].result = "refused")
          /\ (tasks[t].pc = "startSession" /\ miningSessionId' # miningSessionId) =>
                (tasks[t].kind = "start" /\ tasks[t].cu # 0)
          /\ (miningSessionId' # miningSessionId /\ miningSessionId' # 0) =>
                \E u \in Slots : tasks[u].pc = "startSession" /\ tasks'[u].pc = "done"]_vars

(* A start-mining action invoked with no identity has authenticated
   successfully and returned without starting anything: the identity
   exists now and no Session does *)
C22_Witness ==
    \E t \in Slots :
        /\ tasks[t].kind = "start" /\ tasks[t].cu = 0
        /\ tasks[t].auth = "ok" /\ tasks[t].pc = "done"
        /\ Has(tasks[t], "getWalletBalance")
        /\ currentUser # 0 /\ balance = 1250
        /\ miningSessionId = 0 /\ nextSession = 1

(* C23: at most one backend session is started and not yet stopped:
   startMiningSession is never called, and never answers, while a Session
   is active (so no session id is overwritten before it was passed to
   stopMiningSession), and stopMiningSession is not called for a session id
   another stop-mining action has already passed to it. *)
C23_AtMostOneSession ==
    [][\A t \in Slots :
          /\ (tasks[t].pc = "launch" /\ tasks'[t].pc = "startSession")
                => miningSessionId = 0
          /\ (tasks[t].pc = "startSession" /\ miningSessionId' # miningSessionId)
                => miningSessionId = 0
          /\ (tasks[t].pc = "launchStop" /\ tasks'[t].pc = "stopSession")
                => \A u \in Slots \ {t} :
                      ~(/\ Has(tasks[u], "stopMiningSession")
                        /\ tasks[u].sid = tasks[t].sid)]_vars

=============================================================================
